---------------------------- MODULE Spec2Model ----------------------------
(***************************************************************************)
(* Frame codec of tchannel-go (frame.go): the 16-byte frame header, the    *)
(* Frame with its growable backing buffer and its header/payload views,    *)
(* and whole-frame stream I/O (ReadIn / WriteOut).                         *)
(*                                                                         *)
(* Representation.                                                         *)
(*  - A []byte value is a run-length sequence << <<n1,b1>>, <<n2,b2>> .. >>*)
(*    (n_i >= 1, adjacent b_i distinct), so that buffers of 64 KiB are     *)
(*    compared byte for byte without enumerating 65536 elements.           *)
(*  - A Go slice is a view [id, off, len, cap] into a heap of arrays.      *)
(*  - uint16 arithmetic is taken modulo 2^16.  A uint32 is the pair        *)
(*    <<high 16 bits, low 16 bits>> (TLC's integers are 32-bit signed).    *)
(***************************************************************************)
EXTENDS Integers, Sequences, FiniteSets, TLC

\* frame.go:34  MaxFrameSize = math.MaxUint16
MaxFrameSize == 65535
\* frame.go:37
FrameHeaderSize == 16
\* frame.go:40
MaxFramePayloadSize == MaxFrameSize - FrameHeaderSize
\* frame.go:43
initialPayloadCapacity == 1024

\* width of the uint16 fields (size, PayloadSize, SetPayloadSize's argument)
U16 == 65536

Min(a, b) == IF a <= b THEN a ELSE b
Max(a, b) == IF a >= b THEN a ELSE b

---------------------------------------------------------------------------
(* []byte values, run-length encoded *)

\* make([]byte, n) filled with b; n = 0 gives the empty string
BRep(n, b) == IF n <= 0 THEN <<>> ELSE << <<n, b>> >>

\* append(a, b...): concatenation, keeping the encoding canonical
BCat(a, b) ==
  IF a = <<>> THEN b
  ELSE IF b = <<>> THEN a
  ELSE IF a[Len(a)][2] = b[1][2]
       THEN SubSeq(a, 1, Len(a) - 1)
            \o << <<a[Len(a)][1] + b[1][1], b[1][2]>> >>
            \o Tail(b)
       ELSE a \o b

RECURSIVE BLen(_)
\* len(a)
BLen(a) == IF a = <<>> THEN 0 ELSE a[1][1] + BLen(Tail(a))

RECURSIVE BTake(_, _)
\* a[:n]  (n clipped to len(a))
BTake(a, n) ==
  IF n <= 0 \/ a = <<>> THEN <<>>
  ELSE IF a[1][1] >= n THEN << <<n, a[1][2]>> >>
  ELSE BCat(<< a[1] >>, BTake(Tail(a), n - a[1][1]))

RECURSIVE BDrop(_, _)
\* a[n:]  (n clipped to len(a))
BDrop(a, n) ==
  IF a = <<>> THEN <<>>
  ELSE IF n <= 0 THEN a
  ELSE IF a[1][1] > n THEN << <<a[1][1] - n, a[1][2]>> >> \o Tail(a)
  ELSE BDrop(Tail(a), n - a[1][1])

\* a[lo:hi]
BSub(a, lo, hi) == BTake(BDrop(a, lo), hi - lo)

\* copy(a[off:], d): d overwrites a from offset off, clipped to len(a)
BPut(a, off, d) ==
  LET n == Min(BLen(d), BLen(a) - off)
  IN  IF n <= 0 THEN a
      ELSE BCat(BTake(a, off), BCat(BTake(d, n), BDrop(a, off + n)))

RECURSIVE BOfSeq(_)
\* the []byte holding the bytes of the sequence s
BOfSeq(s) == IF s = <<>> THEN <<>> ELSE BCat(BRep(1, s[1]), BOfSeq(Tail(s)))

\* a[i], 0-based
BAt(a, i) == BTake(BDrop(a, i), 1)[1][2]

\* the first n bytes of a as an explicit sequence
BToSeq(a, n) == [i \in 1..n |-> BAt(a, i - 1)]

---------------------------------------------------------------------------
(* typed.ReadBuffer / typed.WriteBuffer primitives: big-endian integers *)

WriteUint16(v) == << v \div 256, v % 256 >>
ReadUint16(b) == b[1] * 256 + b[2]
\* a uint32 is <<high half, low half>>
WriteUint32(v) == WriteUint16(v[1]) \o WriteUint16(v[2])
ReadUint32(b) == << ReadUint16(SubSeq(b, 1, 2)), ReadUint16(SubSeq(b, 3, 4)) >>

---------------------------------------------------------------------------
(* FrameHeader *)

ZeroReserved == [i \in 1..8 |-> 0]

\* the zero value of FrameHeader
ZeroHeader ==
  [size |-> 0, messageType |-> 0, reserved1 |-> 0, ID |-> <<0, 0>>,
   reserved |-> ZeroReserved]

\* fh.size = size + FrameHeaderSize   (uint16)
SetPayloadSize(fh, size) ==
  [fh EXCEPT !.size = (size + FrameHeaderSize) % U16]

\* fh.size - FrameHeaderSize   (uint16)
PayloadSize(fh) == (fh.size - FrameHeaderSize + U16) % U16

FrameSize(fh) == fh.size

\* FrameHeader.read that does not consume the reserved1 byte, so that the
\* ID is taken one byte early
FrameHeaderRead_SkipReserved1(fh, b) ==
  [fh EXCEPT !.size = ReadUint16(SubSeq(b, 1, 2)),
             !.messageType = b[3],
             !.ID = ReadUint32(SubSeq(b, 4, 7))]

\* FrameHeader.read: the 16 bytes b decoded over the header fh
FrameHeaderRead(fh, b) ==
  [fh EXCEPT !.size = ReadUint16(SubSeq(b, 1, 2)),
             !.messageType = b[3],
             !.reserved1 = b[4],
             !.ID = ReadUint32(SubSeq(b, 5, 8))]

\* FrameHeader.write: the 16 bytes the header encodes to
FrameHeaderWrite(fh) ==
  WriteUint16(fh.size) \o << fh.messageType >> \o << fh.reserved1 >>
  \o WriteUint32(fh.ID) \o fh.reserved

---------------------------------------------------------------------------
(* Go slices: views [id, off, len, cap] into the arrays of the heap *)

\* the nil slice (no backing array)
NilSlice == [id |-> 0, off |-> 0, len |-> 0, cap |-> 0]

\* the bytes s[0:len(s)] of slice s
SliceBytes(heap, s) ==
  IF s.id = 0 THEN <<>> ELSE BSub(heap[s.id], s.off, s.off + s.len)

\* copy(s, d): the heap after copying d into slice s
SliceCopy(heap, s, d) ==
  IF s.id = 0 \/ s.len = 0 \/ d = <<>> THEN heap
  ELSE [heap EXCEPT ![s.id] = BPut(@, s.off, BTake(d, s.len))]

\* the arrays still referenced by the frame fr (the others are garbage)
Live(fr) == {fr.buffer.id, fr.headerBuffer.id, fr.Payload.id} \ {0}

\* make([]byte, n): a fresh array id
NewId(heap) == CHOOSE i \in 1..(Cardinality(DOMAIN heap) + 1) : i \notin DOMAIN heap

---------------------------------------------------------------------------
(* Frame.  A machine state m is [f |-> the Frame, heap |-> the arrays]. *)

\* &Frame{}
ZeroFrame ==
  [buffer |-> NilSlice, headerBuffer |-> NilSlice, Header |-> ZeroHeader,
   Payload |-> NilSlice]

\* updateBufferSize that slices the payload view only when the Frame has
\* none, so that after a growth it still refers to the replaced array
updateBufferSize_KeepPayload(m, payloadCapacity) ==
  LET id  == NewId(m.heap)
      new == BPut(BRep(payloadCapacity, 0), 0, SliceBytes(m.heap, m.f.buffer))
      buf == [id |-> id, off |-> 0, len |-> payloadCapacity,
              cap |-> payloadCapacity]
      fr  == [m.f EXCEPT
                !.buffer = buf,
                !.Payload = IF @ = NilSlice
                              THEN [id |-> id, off |-> FrameHeaderSize,
                                    len |-> payloadCapacity - FrameHeaderSize,
                                    cap |-> payloadCapacity - FrameHeaderSize]
                            ELSE @,
                !.headerBuffer = [id |-> id, off |-> 0,
                                  len |-> FrameHeaderSize,
                                  cap |-> payloadCapacity]]
      hp  == [i \in DOMAIN m.heap \cup {id} |->
                IF i = id THEN new ELSE m.heap[i]]
  IN  [f |-> fr, heap |-> [i \in Live(fr) |-> hp[i]]]

\* Frame.updateBufferSize
updateBufferSize(m, payloadCapacity) ==
  LET id  == NewId(m.heap)
      new == BPut(BRep(payloadCapacity, 0), 0, SliceBytes(m.heap, m.f.buffer))
      buf == [id |-> id, off |-> 0, len |-> payloadCapacity,
              cap |-> payloadCapacity]
      fr  == [m.f EXCEPT
                !.buffer = buf,
                !.Payload = [id |-> id, off |-> FrameHeaderSize,
                             len |-> payloadCapacity - FrameHeaderSize,
                             cap |-> payloadCapacity - FrameHeaderSize],
                !.headerBuffer = [id |-> id, off |-> 0,
                                  len |-> FrameHeaderSize,
                                  cap |-> payloadCapacity]]
      hp  == [i \in DOMAIN m.heap \cup {id} |->
                IF i = id THEN new ELSE m.heap[i]]
  IN  [f |-> fr, heap |-> [i \in Live(fr) |-> hp[i]]]

\* NewFrame
NewFrame == updateBufferSize([f |-> ZeroFrame, heap |-> <<>>], initialPayloadCapacity)

\* growth to exactly the size needed, without doubling
GrowTo_Exact(sz, needed) == IF sz < needed THEN needed ELSE sz

RECURSIVE GrowTo(_, _)
\* for sz < needed { sz <<= 1 }
GrowTo(sz, needed) == IF sz < needed THEN GrowTo(sz * 2, needed) ELSE sz

\* SizedPayload returning the whole payload region, not its first
\* PayloadSize() bytes
SizedPayload_Whole(m) ==
  LET ps     == PayloadSize(m.f.Header)
      needed == (FrameHeaderSize + ps) % U16
      sz     == m.f.buffer.cap
      m1     == IF sz < needed THEN updateBufferSize(m, GrowTo(sz, needed))
                ELSE m
  IN  [m |-> m1, panic |-> ps > m1.f.Payload.cap, s |-> m1.f.Payload]

\* Frame.SizedPayload: [m |-> the machine afterwards, panic |-> whether the
\* slice expression f.Payload[:PayloadSize()] is out of range, s |-> the slice]
SizedPayload(m) ==
  LET ps     == PayloadSize(m.f.Header)
      needed == (FrameHeaderSize + ps) % U16
      sz     == m.f.buffer.cap
      m1     == IF sz < needed THEN updateBufferSize(m, GrowTo(sz, needed))
                ELSE m
  IN  [m |-> m1,
       panic |-> ps > m1.f.Payload.cap,
       s |-> [m1.f.Payload EXCEPT !.len = ps]]

---------------------------------------------------------------------------
(* Streams.  A reader rd is [data |-> the bytes it still holds, end |-> the
   error its Read returns once they are exhausted ("EOF" or "ERR")].  A plan
   [c |-> chunk, k |-> count] says how the reader splits its bytes: each of
   the first k Read calls of an operation delivers at most c bytes, the
   later ones as many as are asked for and available. *)

RECURSIVE ReadAtLeast(_, _, _, _, _)
\* io.ReadFull(rd, p), entered with n bytes of p filled by cnt earlier Read
\* calls: for n < len(p) && err == nil { nn, err = rd.Read(p[n:]); n += nn }
ReadAtLeast(rd, p, n, cnt, plan) ==
  LET want  == BLen(p)
      avail == BLen(rd.data)
  IN  IF n >= want
        THEN [n |-> n, err |-> "nil", p |-> p, rd |-> rd, cnt |-> cnt,
              eos |-> FALSE]
      ELSE IF avail = 0
        THEN [n |-> n,
              err |-> IF n > 0 /\ rd.end = "EOF" THEN "ErrUnexpectedEOF"
                      ELSE rd.end,
              p |-> p, rd |-> rd, cnt |-> cnt + 1, eos |-> TRUE]
      ELSE LET lim == IF cnt < plan.k THEN plan.c ELSE want
               nn  == Min(Min(want - n, avail), lim)
           IN  ReadAtLeast([rd EXCEPT !.data = BDrop(@, nn)],
                           BPut(p, n, BTake(rd.data, nn)), n + nn, cnt + 1,
                           plan)

\* io.ReadFull(rd, s) into the slice s: the heap afterwards, the reader
\* afterwards, the error, the number of Read calls made so far and whether
\* the reader reported its end (eos)
ReadFull(heap, rd, s, cnt, plan) ==
  LET res == ReadAtLeast(rd, SliceBytes(heap, s), 0, cnt, plan)
  IN  [heap |-> SliceCopy(heap, s, res.p), rd |-> res.rd, err |-> res.err,
       n |-> res.n, cnt |-> res.cnt, eos |-> res.eos]

\* typed.ReadBuffer.FillFrom(rd, n) on a buffer wrapping the slice s
FillFrom(heap, rd, s, n, plan) ==
  IF s.len < n
    THEN [heap |-> heap, rd |-> rd, err |-> "ErrEOF", n |-> 0, cnt |-> 0,
          eos |-> FALSE]
  ELSE ReadFull(heap, rd, [s EXCEPT !.len = n], 0, plan)

\* a single rd.Read(s) call in place of io.ReadFull(rd, s)
ReadOnce(heap, rd, s, cnt, plan) ==
  LET avail == BLen(rd.data)
      nn    == Min(Min(s.len, avail), IF cnt < plan.k THEN plan.c ELSE s.len)
  IN  IF avail = 0
        THEN [heap |-> heap, rd |-> rd, err |-> rd.end, n |-> 0,
              cnt |-> cnt + 1, eos |-> TRUE]
      ELSE [heap |-> SliceCopy(heap, s, BTake(rd.data, nn)),
            rd |-> [rd EXCEPT !.data = BDrop(@, nn)], err |-> "nil",
            n |-> nn, cnt |-> cnt + 1, eos |-> FALSE]

\* ReadIn reading the payload with one Read call, not io.ReadFull
ReadIn_OneRead(m, rd, plan) ==
  LET fill == FillFrom(m.heap, rd, m.f.headerBuffer, FrameHeaderSize, plan)
      hb   == BToSeq(SliceBytes(fill.heap, m.f.headerBuffer), FrameHeaderSize)
      m1   == [f |-> [m.f EXCEPT !.Header = FrameHeaderRead(@, hb)],
               heap |-> fill.heap]
      sp   == SizedPayload(m1)
      pay  == ReadOnce(sp.m.heap, fill.rd, sp.s, fill.cnt, plan)
  IN  IF fill.err # "nil"
        THEN [m |-> [m EXCEPT !.heap = fill.heap], rd |-> fill.rd,
              err |-> fill.err, eos |-> fill.eos, cnt |-> fill.cnt]
      ELSE IF PayloadSize(m1.f.Header) > 0
        THEN IF sp.panic
               THEN [m |-> sp.m, rd |-> fill.rd, err |-> "panic",
                     eos |-> FALSE, cnt |-> fill.cnt]
             ELSE [m |-> [sp.m EXCEPT !.heap = pay.heap], rd |-> pay.rd,
                   err |-> pay.err, eos |-> pay.eos, cnt |-> pay.cnt]
      ELSE [m |-> m1, rd |-> fill.rd, err |-> "nil", eos |-> FALSE,
            cnt |-> fill.cnt]

\* Frame.ReadIn: [m, rd, err, eos, cnt]; err = "panic" when SizedPayload's
\* slice expression is out of range; eos says whether the reader reported
\* its end, cnt how many Read calls were made
ReadIn(m, rd, plan) ==
  LET fill == FillFrom(m.heap, rd, m.f.headerBuffer, FrameHeaderSize, plan)
      hb   == BToSeq(SliceBytes(fill.heap, m.f.headerBuffer), FrameHeaderSize)
      m1   == [f |-> [m.f EXCEPT !.Header = FrameHeaderRead(@, hb)],
               heap |-> fill.heap]
      sp   == SizedPayload(m1)
      pay  == ReadFull(sp.m.heap, fill.rd, sp.s, fill.cnt, plan)
  IN  IF fill.err # "nil"
        THEN [m |-> [m EXCEPT !.heap = fill.heap], rd |-> fill.rd,
              err |-> fill.err, eos |-> fill.eos, cnt |-> fill.cnt]
      ELSE IF PayloadSize(m1.f.Header) > 0
        THEN IF sp.panic
               THEN [m |-> sp.m, rd |-> fill.rd, err |-> "panic",
                     eos |-> FALSE, cnt |-> fill.cnt]
             ELSE [m |-> [sp.m EXCEPT !.heap = pay.heap], rd |-> pay.rd,
                   err |-> pay.err, eos |-> pay.eos, cnt |-> pay.cnt]
      ELSE [m |-> m1, rd |-> fill.rd, err |-> "nil", eos |-> FALSE,
            cnt |-> fill.cnt]

\* WriteOut that leaves the header view as it is instead of encoding the
\* current Header into it
WriteOut_StaleHeader(m, werr) ==
  LET n == FrameSize(m.f.Header)
  IN  IF n > m.f.buffer.cap
        THEN [m |-> m, err |-> "panic", calls |-> <<>>]
      ELSE [m |-> m, err |-> werr,
            calls |-> << SliceBytes(m.heap, [m.f.buffer EXCEPT !.len = n]) >>]

\* Frame.WriteOut to a writer whose Write call returns werr ("nil" or an
\* error): [m, err, calls]; calls are the arguments of the Write calls made
WriteOut(m, werr) ==
  LET hp == SliceCopy(m.heap, m.f.headerBuffer,
                      BOfSeq(FrameHeaderWrite(m.f.Header)))
      m1 == [m EXCEPT !.heap = hp]
      n  == FrameSize(m.f.Header)
  IN  IF m.f.headerBuffer.len < FrameHeaderSize
        THEN [m |-> m, err |-> "ErrBufferFull", calls |-> <<>>]
      ELSE IF n > m.f.buffer.cap
        THEN [m |-> m1, err |-> "panic", calls |-> <<>>]
      ELSE [m |-> m1, err |-> werr,
            calls |-> << SliceBytes(hp, [m.f.buffer EXCEPT !.len = n]) >>]

(* A message msg is [id, mtype, body, fail]: its write encodes body into the
   WriteBuffer, failing when body does not fit or when fail is set (after
   the bytes that fit were written). *)

\* message.write(wbuf) on a WriteBuffer wrapping the slice s
MessageWrite(heap, s, msg) ==
  LET fits == BLen(msg.body) <= s.len
  IN  [heap |-> SliceCopy(heap, s, BTake(msg.body, s.len)),
       err |-> IF ~fits THEN "ErrBufferFull"
               ELSE IF msg.fail THEN "encode" ELSE "nil",
       written |-> Min(BLen(msg.body), s.len)]

\* write that sets the header fields before the message is encoded
write_HeaderFirst(m, msg) ==
  LET enc == MessageWrite(m.heap, m.f.Payload, msg)
      h   == [m.f.Header EXCEPT !.ID = msg.id, !.reserved1 = 0,
                                !.messageType = msg.mtype]
  IN  IF enc.err # "nil"
        THEN [m |-> [f |-> [m.f EXCEPT !.Header = h], heap |-> enc.heap],
              err |-> enc.err]
      ELSE [m |-> [f |-> [m.f EXCEPT
                            !.Header = SetPayloadSize(h, enc.written % U16)],
                   heap |-> enc.heap],
            err |-> "nil"]

\* Frame.write: [m, err]
write(m, msg) ==
  LET enc == MessageWrite(m.heap, m.f.Payload, msg)
      h   == [m.f.Header EXCEPT !.ID = msg.id, !.reserved1 = 0,
                                !.messageType = msg.mtype]
  IN  IF enc.err # "nil"
        THEN [m |-> [m EXCEPT !.heap = enc.heap], err |-> enc.err]
      ELSE [m |-> [f |-> [m.f EXCEPT
                            !.Header = SetPayloadSize(h, enc.written % U16)],
                   heap |-> enc.heap],
            err |-> "nil"]

\* Frame.read: [m, err, payload]; payload is what the message's decoder is
\* handed; derr is the decoder's answer
read(m, derr) ==
  LET sp == SizedPayload(m)
  IN  IF sp.panic THEN [m |-> sp.m, err |-> "panic", payload |-> <<>>]
      ELSE [m |-> sp.m, err |-> derr, payload |-> SliceBytes(sp.m.heap, sp.s)]

---------------------------------------------------------------------------
(* Inputs *)

\* frames per input stream
MaxFrames == 2
\* short reads a reader makes before it delivers whatever is asked
MaxShortReads == 20
\* operations per run of the Frame machine
MaxOps == 3

\* a payload of L bytes: first byte s, last byte s + 2, s + 1 between
Body(L, s) ==
  BCat(BRep(Min(L, 1), s),
       BCat(BRep(L - 2, s + 1), BRep(IF L >= 2 THEN 1 ELSE 0, s + 2)))

\* the reader that delivers every request in one Read
WholePlan == [c |-> 1, k |-> 0]
Plans ==
  {WholePlan, [c |-> 1, k |-> 1]}
  \cup {[c |-> c, k |-> MaxShortReads] : c \in {1, 3}}

\* a frame as a peer puts it on the wire
Wire(size, mt, r1, id, rsv, body) ==
  [size |-> size, messageType |-> mt, reserved1 |-> r1, ID |-> id,
   reserved |-> rsv, body |-> body]

WireBytes(wf) ==
  BCat(BOfSeq(FrameHeaderWrite([size |-> wf.size,
                                messageType |-> wf.messageType,
                                reserved1 |-> wf.reserved1, ID |-> wf.ID,
                                reserved |-> wf.reserved])),
       wf.body)

\* frames with 16 <= size and size - 16 bytes of payload
ValidWire ==
  { Wire(116, 7, 0, <<0, 42>>, ZeroReserved, Body(100, 10)),
    Wire(16, 255, 0, <<65535, 65535>>, ZeroReserved, <<>>),
    Wire(19, 1, 0, <<0, 1>>, ZeroReserved, Body(3, 20)),
    Wire(1025, 0, 9, <<0, 0>>, [i \in 1..8 |-> i], Body(1009, 30)),
    Wire(MaxFrameSize, 3, 0, <<1, 0>>, ZeroReserved,
         Body(MaxFramePayloadSize, 40)) }

\* headers whose size field is below the header size
BadWire == { Wire(FrameHeaderSize - 1, 2, 0, <<0, 6>>, ZeroReserved, Body(5, 50)) }

RECURSIVE WireStream(_)
WireStream(ws) ==
  IF ws = <<>> THEN <<>> ELSE BCat(WireBytes(ws[1]), WireStream(Tail(ws)))

\* where a stream may break off inside its last frame wf (offsets in wf)
Cuts(wf) ==
  {c \in {0, FrameHeaderSize - 1, FrameHeaderSize, BLen(WireBytes(wf)) - 1} :
     0 <= c /\ c < BLen(WireBytes(wf))}

\* the input streams over the frame set W: up to MaxFrames frames, whole or
\* broken off inside the last one, ending in "EOF" or in an error "ERR"
Feeds(W) ==
  UNION { { [frames |-> ws, cut |-> c, end |-> e] :
              c \in Cuts(ws[Len(ws)]) \cup {-1}, e \in {"EOF", "ERR"} } :
          ws \in UNION {[1..n -> W] : n \in 1..MaxFrames} }

FeedReader(fd) ==
  LET all == WireStream(fd.frames)
      n   == Len(fd.frames)
  IN  [data |-> IF fd.cut < 0 THEN all
                ELSE BTake(all, BLen(WireStream(SubSeq(fd.frames, 1, n - 1)))
                                + fd.cut),
       end |-> fd.end]

---------------------------------------------------------------------------
(* State *)

VARIABLES
  f,      \* the Frame
  heap,   \* the arrays its slices refer to
  rd,     \* the input stream
  feed,   \* what was put on the input stream, and nread, the frames read
  out,    \* the last operation and what it returned
  prev,   \* f, heap and rd before the last operation
  sent,   \* the frame the last successful WriteOut emitted
  ops,    \* operations so far
  hc      \* the header codec under test

vars == <<f, heap, rd, feed, out, prev, sent, ops, hc>>

NoMsg == [id |-> <<0, 0>>, mtype |-> 0, body |-> <<>>, fail |-> FALSE]
NoOut ==
  [op |-> "none", err |-> "nil", eos |-> FALSE, calls |-> <<>>,
   payload |-> <<>>, hdr |-> ZeroHeader, arg |-> 0, reads |-> 0,
   werr |-> "nil", msg |-> NoMsg, written |-> 0]
NoSent == [ok |-> FALSE, hdr |-> ZeroHeader, payload |-> <<>>, bytes |-> <<>>]
NoFeed == [frames |-> <<>>, cut |-> -1, end |-> "EOF", nread |-> 0]
HcIdle == [pc |-> "idle", L |-> 0, h |-> ZeroHeader, bytes |-> <<>>,
           back |-> ZeroHeader]

\* the state after NewFrame(), reading the stream fd
InitWith(fd) ==
  /\ f = NewFrame.f
  /\ heap = NewFrame.heap
  /\ rd = FeedReader(fd)
  /\ feed = [frames |-> fd.frames, cut |-> fd.cut, end |-> fd.end, nread |-> 0]
  /\ out = NoOut
  /\ prev = [f |-> NewFrame.f, heap |-> NewFrame.heap, rd |-> FeedReader(fd)]
  /\ sent = NoSent
  /\ ops = 0
  /\ hc = HcIdle

Snapshot == [f |-> f, heap |-> heap, rd |-> rd]

\* a call of f.ReadIn(rd)
DoReadIn ==
  /\ ops < MaxOps
  /\ out.err # "panic"
  /\ \E plan \in Plans :
       \E res \in {ReadIn([f |-> f, heap |-> heap], rd, plan)} :
           /\ f' = res.m.f
           /\ heap' = res.m.heap
           /\ rd' = res.rd
           /\ out' = [NoOut EXCEPT !.op = "ReadIn", !.err = res.err,
                                   !.eos = res.eos, !.reads = res.cnt]
           /\ feed' = [feed EXCEPT
                         !.nread = IF res.err = "nil" THEN @ + 1 ELSE @]
  /\ prev' = Snapshot
  /\ ops' = ops + 1
  /\ UNCHANGED <<sent, hc>>

InitRead == \E fd \in Feeds(ValidWire \cup BadWire) : InitWith(fd)
NextRead == DoReadIn
SpecRead == InitRead /\ [][NextRead]_vars

---------------------------------------------------------------------------
(* Claims about ReadIn (SpecRead) *)

\* the header the first 16 bytes of the byte string b decode to
HeadOf(b) == FrameHeaderRead(ZeroHeader, BToSeq(b, FrameHeaderSize))

\* b starts with a valid frame: a header with size >= 16 and the size - 16
\* payload bytes it declares
StartsWithFrame(b) ==
  /\ BLen(b) >= FrameHeaderSize
  /\ FrameSize(HeadOf(b)) >= FrameHeaderSize
  /\ BLen(b) >= FrameSize(HeadOf(b))

\* the payload SizedPayload shows
ShownPayload ==
  LET sp == SizedPayload([f |-> f, heap |-> heap])
  IN  IF sp.panic THEN <<>> ELSE SliceBytes(sp.m.heap, sp.s)

\* bytes the last operation took from the stream
Consumed == BLen(prev.rd.data) - BLen(rd.data)

\* C3: when the stream starts with a valid frame, ReadIn returns no error
\* and leaves the header fields and payload bytes that a single whole read
\* of the frame leaves, however the stream splits the bytes into short reads.
C3_ShortReadsSameFrame ==
  (out.op = "ReadIn" /\ StartsWithFrame(prev.rd.data)) =>
    LET ref == ReadIn([f |-> prev.f, heap |-> prev.heap], prev.rd, WholePlan)
        sp  == SizedPayload(ref.m)
    IN  /\ out.err = "nil"
        /\ ref.err = "nil"
        /\ f.Header = ref.m.f.Header
        /\ f.Header.size = FrameSize(HeadOf(prev.rd.data))
        /\ ShownPayload = SliceBytes(sp.m.heap, sp.s)
        /\ ShownPayload =
             BSub(prev.rd.data, FrameHeaderSize, FrameSize(f.Header))

\* a valid frame with payload arrived one header byte per read and its
\* payload in several short reads
C3_Witness ==
  /\ out.op = "ReadIn"
  /\ StartsWithFrame(prev.rd.data)
  /\ out.err = "nil"
  /\ PayloadSize(f.Header) >= 3
  /\ out.reads >= FrameHeaderSize + 3

\* C4: when the stream ends (with EOF or an error) before it has delivered
\* the 16 header bytes, or after the header but before all of the non-zero
\* payload the header declares, ReadIn returns an error: it neither succeeds
\* nor crashes; a ReadIn that succeeds received the 16 header bytes and at
\* least size bytes.
C4_TruncatedStreamIsError ==
  out.op = "ReadIn" =>
    LET avail == BLen(prev.rd.data)
        decl  == PayloadSize(HeadOf(prev.rd.data))
    IN  /\ avail < FrameHeaderSize => out.err \notin {"nil", "panic"}
        /\ (avail >= FrameHeaderSize /\ decl > 0
              /\ avail < FrameHeaderSize + decl) =>
             out.err \notin {"nil", "panic"}
        /\ out.err = "nil" =>
             /\ Consumed >= FrameHeaderSize
             /\ Consumed >= FrameSize(f.Header)

\* the frames of the feed up to the k-th are valid and whole
WholeFrames(k) ==
  /\ k >= 1
  /\ k <= Len(feed.frames)
  /\ \A i \in 1..k : feed.frames[i] \in ValidWire
  /\ (k < Len(feed.frames) \/ feed.cut < 0)

\* the bytes of the feed after its first k frames
RestOfFeed(k) ==
  BDrop(FeedReader(feed).data, BLen(WireStream(SubSeq(feed.frames, 1, k))))

\* C5: on a stream of valid frames the k-th ReadIn on the reused Frame
\* succeeds, consumes exactly the size bytes of the k-th frame and leaves
\* that frame's header fields and exactly its payload bytes.
C5_FramesInOrder ==
  (out.op = "ReadIn" /\ WholeFrames(ops)) =>
    LET wf == feed.frames[ops]
    IN  /\ out.err = "nil"
        /\ feed.nread = ops
        /\ Consumed = wf.size
        /\ rd.data = RestOfFeed(ops)
        /\ f.Header.size = wf.size
        /\ f.Header.messageType = wf.messageType
        /\ f.Header.ID = wf.ID
        /\ PayloadSize(f.Header) = BLen(wf.body)
        /\ ShownPayload = wf.body

\* a second frame read after a longer first one
C5_Witness ==
  /\ out.op = "ReadIn"
  /\ ops = 2
  /\ WholeFrames(2)
  /\ feed.nread = 2
  /\ BLen(feed.frames[2].body) > 0
  /\ BLen(feed.frames[1].body) > BLen(feed.frames[2].body)

---------------------------------------------------------------------------
(* The header codec on its own (SpecHdr): a header is set up, encoded by
   FrameHeader.write into 16 bytes and decoded by FrameHeader.read. *)

HdrTypes == {0, 7, 255}
HdrIDs == {<<0, 0>>, <<0, 42>>, <<32768, 0>>, <<65535, 65535>>}
HdrLens == {0, 1, 100, 255, 256, 1008, MaxFramePayloadSize}
\* headers the decoder overwrites: a fresh one and a used one
HdrTargets ==
  {ZeroHeader,
   [size |-> 999, messageType |-> 9, reserved1 |-> 9, ID |-> <<9, 9>>,
    reserved |-> ZeroReserved]}

InitHdr ==
  /\ f = NewFrame.f
  /\ heap = NewFrame.heap
  /\ rd = [data |-> <<>>, end |-> "EOF"]
  /\ feed = NoFeed
  /\ out = NoOut
  /\ prev = [f |-> NewFrame.f, heap |-> NewFrame.heap,
             rd |-> [data |-> <<>>, end |-> "EOF"]]
  /\ sent = NoSent
  /\ ops = 0
  /\ \E t \in HdrTypes, id \in HdrIDs, L \in HdrLens :
       hc = [pc |-> "set", L |-> L,
             h |-> SetPayloadSize([ZeroHeader EXCEPT !.messageType = t,
                                                    !.ID = id], L),
             bytes |-> <<>>, back |-> ZeroHeader]

\* fh.write(wbuf) on a buffer of 16 bytes
HdrWrite ==
  /\ hc.pc = "set"
  /\ hc' = [hc EXCEPT !.pc = "enc", !.bytes = FrameHeaderWrite(hc.h)]
  /\ UNCHANGED <<f, heap, rd, feed, out, prev, sent, ops>>

\* fh.read(rbuf) on those 16 bytes
HdrRead ==
  /\ hc.pc = "enc"
  /\ \E t \in HdrTargets :
       hc' = [hc EXCEPT !.pc = "dec", !.back = FrameHeaderRead(t, hc.bytes)]
  /\ UNCHANGED <<f, heap, rd, feed, out, prev, sent, ops>>

NextHdr == HdrWrite \/ HdrRead
SpecHdr == InitHdr /\ [][NextHdr]_vars

\* C2: a header with SetPayloadSize(L), a messageType and an ID, written by
\* FrameHeader.write into 16 bytes and read back by FrameHeader.read, has the
\* same messageType and ID and PayloadSize() = L.
C2_HeaderRoundTrip ==
  /\ hc.pc \in {"enc", "dec"} => Len(hc.bytes) = FrameHeaderSize
  /\ hc.pc = "dec" =>
       /\ hc.back.messageType = hc.h.messageType
       /\ hc.back.ID = hc.h.ID
       /\ PayloadSize(hc.back) = hc.L

\* the largest payload length, ID and messageType were encoded and decoded
C2_Witness ==
  /\ hc.pc = "dec"
  /\ hc.L = MaxFramePayloadSize
  /\ hc.h.ID = <<65535, 65535>>
  /\ hc.h.messageType = 255
  /\ hc.back.reserved1 = 0

---------------------------------------------------------------------------
(* The Frame machine (Spec): every operation of a Frame, from NewFrame *)

\* the streams a Frame of the machine reads from
MachineFeeds ==
  { [frames |-> << wf >>, cut |-> -1, end |-> "EOF"] :
      wf \in { Wire(116, 7, 0, <<0, 42>>, ZeroReserved, Body(100, 10)),
               Wire(1025, 0, 9, <<0, 0>>, [i \in 1..8 |-> i], Body(1009, 30)),
               Wire(MaxFrameSize, 3, 0, <<1, 0>>, ZeroReserved,
                    Body(MaxFramePayloadSize, 40)) } }

\* the messages handed to Frame.write
Messages ==
  { [id |-> <<0, 42>>, mtype |-> 7, body |-> Body(100, 60), fail |-> FALSE],
    [id |-> <<0, 43>>, mtype |-> 1, body |-> Body(1009, 70), fail |-> FALSE],
    [id |-> <<7, 44>>, mtype |-> 255, body |-> Body(MaxFramePayloadSize + 1, 80),
     fail |-> FALSE],
    [id |-> <<0, 45>>, mtype |-> 2, body |-> Body(10, 90), fail |-> TRUE],
    [id |-> <<65535, 65535>>, mtype |-> 0, body |-> <<>>, fail |-> FALSE],
    [id |-> <<32768, 1>>, mtype |-> 3, body |-> Body(MaxFramePayloadSize, 100),
     fail |-> FALSE] }

\* the arguments of Header.SetPayloadSize
PayloadSizes ==
  {0, 2000, 3000, 5000, 10000, 20000, MaxFramePayloadSize,
   MaxFramePayloadSize + 1}

\* f.Header.SetPayloadSize(n)
DoSetPayloadSize ==
  /\ ops < MaxOps
  /\ out.err # "panic"
  /\ \E n \in PayloadSizes :
       /\ f' = [f EXCEPT !.Header = SetPayloadSize(@, n)]
       /\ out' = [NoOut EXCEPT !.op = "SetPayloadSize", !.arg = n]
  /\ prev' = Snapshot
  /\ ops' = ops + 1
  /\ UNCHANGED <<heap, rd, feed, sent, hc>>

\* f.SizedPayload()
DoSizedPayload ==
  /\ ops < MaxOps
  /\ out.err # "panic"
  /\ \E sp \in {SizedPayload([f |-> f, heap |-> heap])} :
       /\ f' = sp.m.f
       /\ heap' = sp.m.heap
       /\ out' = [NoOut EXCEPT
                    !.op = "SizedPayload",
                    !.err = IF sp.panic THEN "panic" ELSE "nil",
                    !.payload = IF sp.panic THEN <<>>
                                ELSE SliceBytes(sp.m.heap, sp.s)]
  /\ prev' = Snapshot
  /\ ops' = ops + 1
  /\ UNCHANGED <<rd, feed, sent, hc>>

\* f.write(msg)
DoWrite ==
  /\ ops < MaxOps
  /\ out.err # "panic"
  /\ \E msg \in Messages :
       \E res \in {write([f |-> f, heap |-> heap], msg)} :
         /\ f' = res.m.f
         /\ heap' = res.m.heap
         /\ out' = [NoOut EXCEPT !.op = "write", !.err = res.err,
                                 !.msg = msg,
                                 !.written = Min(BLen(msg.body), f.Payload.len)]
  /\ prev' = Snapshot
  /\ ops' = ops + 1
  /\ UNCHANGED <<rd, feed, sent, hc>>

\* f.read(msg), the message's decoder answering derr
DoRead ==
  /\ ops < MaxOps
  /\ out.err # "panic"
  /\ \E derr \in {"nil", "decode"} :
       \E res \in {read([f |-> f, heap |-> heap], derr)} :
         /\ f' = res.m.f
         /\ heap' = res.m.heap
         /\ out' = [NoOut EXCEPT !.op = "read", !.err = res.err,
                                 !.payload = res.payload]
  /\ prev' = Snapshot
  /\ ops' = ops + 1
  /\ UNCHANGED <<rd, feed, sent, hc>>

\* the payload region's first PayloadSize() bytes, when they are in range
PayloadOf(fr, hp) ==
  IF PayloadSize(fr.Header) <= fr.Payload.cap
    THEN SliceBytes(hp, [fr.Payload EXCEPT !.len = PayloadSize(fr.Header)])
  ELSE <<>>

\* f.WriteOut(w), the writer's Write answering werr
DoWriteOut ==
  /\ ops < MaxOps
  /\ out.err # "panic"
  /\ \E werr \in {"nil", "ERR"} :
       \E res \in {WriteOut([f |-> f, heap |-> heap], werr)} :
         /\ f' = res.m.f
         /\ heap' = res.m.heap
         /\ out' = [NoOut EXCEPT !.op = "WriteOut", !.err = res.err,
                                 !.calls = res.calls, !.werr = werr]
         /\ sent' = IF res.err = "nil" /\ Len(res.calls) = 1
                      THEN [ok |-> TRUE, hdr |-> f.Header,
                            payload |-> PayloadOf(f, heap),
                            bytes |-> res.calls[1]]
                    ELSE sent
  /\ prev' = Snapshot
  /\ ops' = ops + 1
  /\ UNCHANGED <<rd, feed, hc>>

\* NewFrame().ReadIn(r) on a reader holding the bytes the last successful
\* WriteOut emitted
DoReadBack ==
  /\ ops < MaxOps
  /\ out.err # "panic"
  /\ sent.ok
  /\ \E plan \in Plans :
       \E res \in {ReadIn(NewFrame, [data |-> sent.bytes, end |-> "EOF"], plan)} :
         out' = [NoOut EXCEPT
                   !.op = "ReadBack", !.err = res.err, !.eos = res.eos,
                   !.reads = res.cnt, !.hdr = res.m.f.Header,
                   !.payload = IF res.err = "nil"
                                 THEN PayloadOf(res.m.f, res.m.heap)
                               ELSE <<>>]
  /\ ops' = ops + 1
  /\ UNCHANGED <<f, heap, rd, feed, prev, sent, hc>>

Init == \E fd \in MachineFeeds : InitWith(fd)
Next ==
  \/ DoReadIn
  \/ DoSetPayloadSize
  \/ DoSizedPayload
  \/ DoWrite
  \/ DoRead
  \/ DoWriteOut
  \/ DoReadBack
Spec == Init /\ [][Next]_vars

---------------------------------------------------------------------------
(* Claims about the Frame machine (Spec) *)

\* the bytes of the current buffer
BufferBytes == SliceBytes(heap, f.buffer)

\* C1: a frame with a payload of L <= 65519 bytes (size = L + 16 >= 16) that
\* WriteOut emitted is read by ReadIn on a fresh Frame without error, with
\* the same messageType and ID, PayloadSize() = L and the same payload bytes.
C1_WriteOutReadInRoundTrip ==
  (out.op = "ReadBack" /\ FrameSize(sent.hdr) >= FrameHeaderSize) =>
    /\ out.err = "nil"
    /\ out.hdr.messageType = sent.hdr.messageType
    /\ out.hdr.ID = sent.hdr.ID
    /\ PayloadSize(out.hdr) = PayloadSize(sent.hdr)
    /\ BLen(out.payload) = FrameSize(sent.hdr) - FrameHeaderSize
    /\ out.payload = sent.payload

\* a frame with the largest payload, 65519 bytes, made the round trip
C1_Witness ==
  /\ out.op = "ReadBack"
  /\ out.err = "nil"
  /\ FrameSize(sent.hdr) = MaxFrameSize
  /\ BLen(out.payload) = MaxFramePayloadSize

\* C6: WriteOut encodes the Header into the first 16 bytes of the buffer and
\* makes exactly one Write call, whose argument is FrameSize() bytes long:
\* the 16 header bytes followed by the first PayloadSize() bytes of the
\* payload region; it returns what that call returned.
C6_WriteOutOneWholeWrite ==
  out.op = "WriteOut" =>
    /\ BToSeq(BufferBytes, FrameHeaderSize) = FrameHeaderWrite(f.Header)
    /\ Len(out.calls) = 1
    /\ BLen(out.calls[1]) = FrameSize(f.Header)
    /\ out.calls[1] = BCat(BOfSeq(FrameHeaderWrite(f.Header)),
                           BSub(BufferBytes, FrameHeaderSize,
                                FrameHeaderSize + PayloadSize(f.Header)))
    /\ out.err = out.werr

\* C7: after a successful write(msg) the header has the message's ID and
\* messageType, reserved1 = 0, PayloadSize() = the bytes the message wrote
\* and FrameSize() = that number + 16.
C7_WriteSetsHeader ==
  (out.op = "write" /\ out.err = "nil") =>
    /\ f.Header.ID = out.msg.id
    /\ f.Header.reserved1 = 0
    /\ f.Header.messageType = out.msg.mtype
    /\ PayloadSize(f.Header) = out.written
    /\ FrameSize(f.Header) = out.written + FrameHeaderSize

\* C8: the encode target Frame.write hands to a message (the payload view)
\* is never longer than 65519 bytes, and no successful write records a
\* payload above 65519 bytes or a frame size above 65535.
C8_EncodeTargetBounded ==
  /\ f.Payload.len <= MaxFramePayloadSize
  /\ (out.op = "write" /\ out.err = "nil") =>
       /\ out.written <= MaxFramePayloadSize
       /\ PayloadSize(f.Header) <= MaxFramePayloadSize
       /\ out.written + FrameHeaderSize <= MaxFrameSize

\* C9: declaring a payload length above 65519, by SetPayloadSize(n) or by a
\* write whose message encodes more than 65519 bytes, is rejected and never
\* leaves the wrapped size (n + 16) mod 65536 in the header.
C9_OversizeRejected ==
  /\ (out.op = "SetPayloadSize" /\ out.arg > MaxFramePayloadSize) =>
       /\ out.err # "nil"
       /\ f.Header.size # (out.arg + FrameHeaderSize) % U16
  /\ (out.op = "write" /\ BLen(out.msg.body) > MaxFramePayloadSize) =>
       /\ out.err # "nil"
       /\ f.Header = prev.f.Header

\* C10: in every frame WriteOut emits, header byte 3 (reserved1) and header
\* bytes 8..15 (reserved) are zero.
C10_ReservedWrittenZero ==
  (out.op = "WriteOut" /\ Len(out.calls) = 1
     /\ BLen(out.calls[1]) >= FrameHeaderSize) =>
    /\ BAt(out.calls[1], 3) = 0
    /\ \A i \in 8..15 : BAt(out.calls[1], i) = 0

\* the header invariant: size >= 16 and an unwrapped payload length
HeaderInRange(h) ==
  /\ h.size >= FrameHeaderSize
  /\ PayloadSize(h) = h.size - FrameHeaderSize
  /\ PayloadSize(h) <= MaxFramePayloadSize

\* the last operation is a ReadIn, a write or a SetPayloadSize(n), n <= 65519
HeaderOp ==
  \/ out.op \in {"ReadIn", "write"}
  \/ (out.op = "SetPayloadSize" /\ out.arg <= MaxFramePayloadSize)

\* C11: the header of the Frame NewFrame returns has size >= 16 and
\* PayloadSize() = size - 16 <= 65519, and a ReadIn, a write or a
\* SetPayloadSize(n) with n <= 65519 on a Frame whose header is so leaves a
\* header that is so.
C11_HeaderSizeInRange ==
  /\ out.op = "none" => HeaderInRange(f.Header)
  /\ (HeaderOp /\ HeaderInRange(prev.f.Header)) => HeaderInRange(f.Header)

\* C12: a write of a message that encodes without error to at most 65519
\* bytes succeeds on every Frame, the payload region having grown to hold
\* the encoding when it was shorter, and the header bytes kept.
C12_WriteGrowsBuffer ==
  (out.op = "write" /\ ~out.msg.fail
     /\ BLen(out.msg.body) <= MaxFramePayloadSize) =>
    /\ out.err = "nil"
    /\ f.Payload.len >= BLen(out.msg.body)
    /\ BSub(BufferBytes, FrameHeaderSize,
            FrameHeaderSize + BLen(out.msg.body)) = out.msg.body
    /\ BTake(BufferBytes, FrameHeaderSize)
         = BTake(SliceBytes(prev.heap, prev.f.buffer), FrameHeaderSize)

\* the bytes of the buffer before the last operation
PrevBufferBytes == SliceBytes(prev.heap, prev.f.buffer)

\* C13: a SizedPayload (on its own or inside read) that needs
\* n = 16 + PayloadSize() bytes on a buffer of capacity c < n returns without
\* crashing and leaves a buffer of the smallest capacity c * 2^k, k >= 1, that
\* is >= n, a new array holding the c old bytes at their offsets, with the
\* header and payload views on it; with c >= n it leaves the buffer, its
\* bytes and the views as they were.
C13_GrowthDoublesAndCopies ==
  out.op \in {"SizedPayload", "read"} =>
    LET n == FrameHeaderSize + PayloadSize(prev.f.Header)
        c == prev.f.buffer.cap
    IN  IF c < n
          THEN /\ out.err # "panic"
               /\ \E k \in 1..6 : f.buffer.cap = c * 2^k
               /\ f.buffer.cap >= n
               /\ f.buffer.cap \div 2 < n
               /\ f.buffer.id # prev.f.buffer.id
               /\ BTake(BufferBytes, c) = PrevBufferBytes
               /\ f.headerBuffer.id = f.buffer.id
               /\ f.Payload.id = f.buffer.id
        ELSE /\ f.buffer = prev.f.buffer
             /\ f.headerBuffer = prev.f.headerBuffer
             /\ f.Payload = prev.f.Payload
             /\ BufferBytes = PrevBufferBytes

\* C14: in every state (after NewFrame and after every SizedPayload, ReadIn,
\* write, read and WriteOut) the buffer is a whole live array, the header
\* view is its bytes [0, 16) and the payload view its bytes [16, capacity):
\* the views do not overlap and no view refers to a replaced array.
C14_ViewsOnCurrentBuffer ==
  /\ f.buffer.id \in DOMAIN heap
  /\ DOMAIN heap = {f.buffer.id}
  /\ f.buffer.off = 0
  /\ f.buffer.len = f.buffer.cap
  /\ BLen(heap[f.buffer.id]) = f.buffer.cap
  /\ f.headerBuffer.id = f.buffer.id
  /\ f.headerBuffer.off = 0
  /\ f.headerBuffer.len = FrameHeaderSize
  /\ f.Payload.id = f.buffer.id
  /\ f.Payload.off = FrameHeaderSize
  /\ f.Payload.len = f.buffer.cap - FrameHeaderSize
  /\ f.headerBuffer.off + f.headerBuffer.len <= f.Payload.off

\* a SizedPayload, read or ReadIn replaced the buffer by a larger one
C14_Witness ==
  /\ out.op \in {"SizedPayload", "read", "ReadIn"}
  /\ out.err = "nil"
  /\ f.buffer.cap > prev.f.buffer.cap
  /\ f.buffer.id # prev.f.buffer.id

\* C15: SizedPayload, read and ReadIn never take an out-of-range slice,
\* whatever the header's size field is: PayloadSize() is at most the length
\* of the payload region after the growth step, and SizedPayload returns
\* exactly PayloadSize() bytes.
C15_SizedPayloadInRange ==
  out.op \in {"SizedPayload", "read", "ReadIn"} =>
    /\ out.err # "panic"
    /\ out.op \in {"SizedPayload", "read"} =>
         /\ PayloadSize(f.Header) <= f.Payload.len
         /\ (out.op = "SizedPayload" =>
               BLen(out.payload) = PayloadSize(f.Header))

\* C16: a write that returns an error leaves the Header, the buffer's
\* capacity, the views and the 16 header bytes of the buffer as they were
\* before the call.
C16_FailedWriteKeepsHeader ==
  (out.op = "write" /\ out.err # "nil") =>
    /\ f.Header = prev.f.Header
    /\ f.buffer.cap = prev.f.buffer.cap
    /\ f = prev.f
    /\ BTake(BufferBytes, FrameHeaderSize)
         = BTake(PrevBufferBytes, FrameHeaderSize)

\* a write failed in the message's encoder on a Frame whose header held
\* another frame's ID, messageType and size, after payload bytes were
\* overwritten
C16_Witness ==
  /\ out.op = "write"
  /\ out.err = "encode"
  /\ out.msg.fail
  /\ prev.f.Header.size > FrameHeaderSize
  /\ prev.f.Header.ID # out.msg.id
  /\ prev.f.Header.messageType # out.msg.mtype
  /\ BufferBytes # PrevBufferBytes

\* C17: the capacity of the buffer is one of 1024, 2048, 4096, 8192, 16384,
\* 32768, 65536 in every state, and no operation leaves it smaller than it
\* was before.
C17_CapacityPowerOfTwo ==
  /\ f.buffer.cap \in {initialPayloadCapacity * 2^k : k \in 0..6}
  /\ f.buffer.cap >= prev.f.buffer.cap

\* the buffer grew twice: from 1024 to 2048 and from 2048 to 65536
C17_Witness ==
  /\ prev.f.buffer.cap = 2 * initialPayloadCapacity
  /\ f.buffer.cap = U16

===========================================================================
